---- MODULE Spec2Model ----
(***************************************************************************)
(* Model of pipeline_inmemory.py: the mortgage-statement pipeline          *)
(* (vendor detection, property resolution, line parsing, header mapping,   *)
(* workbook assembly).                                                     *)
(*                                                                         *)
(* Python strings are sequences of one-character strings, so that the      *)
(* string operations of the source (strip, lower, replace, regular         *)
(* expression search) are computed character by character.                 *)
(***************************************************************************)
EXTENDS Integers, Sequences, FiniteSets, TLC

VARIABLES
    pdf_blobs,       \* the batch: a sequence of extracted documents
    datagrid_df,     \* the property directory: a sequence of rows
    vendor_df,       \* the vendor-rule table, or NoTable
    template_bytes,  \* the template workbook's sheet, or NoTemplate
    ws,              \* the "Mortgage Import" sheet: <<row, col>> -> cell
    r, cnt,          \* next sheet row and next sequence number
    di, li,          \* position in pdf_blobs and in the document's lines
    vendor, prop,    \* locals of the document loop
    lv, hdr,         \* locals of the line loop
    pc,              \* position of run_pipeline_in_memory
    out,             \* the returned buffer, or NoOutput
    rowlog,          \* history: the rows appended so far, with their origin
    call, ret        \* one call of a pure helper: its arguments and result

pipeVars == <<pdf_blobs, datagrid_df, vendor_df, template_bytes, ws, r, cnt,
              di, li, vendor, prop, lv, hdr, pc, out, rowlog>>
vars == <<pipeVars, call, ret>>

-----------------------------------------------------------------------------
(* Python str primitives.                                                  *)

UpperCase == <<"A","B","C","D","E","F","G","H","I","J","K","L","M",
               "N","O","P","Q","R","S","T","U","V","W","X","Y","Z">>
LowerCase == <<"a","b","c","d","e","f","g","h","i","j","k","l","m",
               "n","o","p","q","r","s","t","u","v","w","x","y","z">>
DigitChars == <<"0","1","2","3","4","5","6","7","8","9">>

Range(s) == {s[i] : i \in DOMAIN s}

UpperSet == Range(UpperCase)
AlphaSet == Range(UpperCase) \cup Range(LowerCase)
DigitSet == Range(DigitChars)
SpaceSet == {" ", "\n", "\t"}
\* \w of the re module
WordSet == AlphaSet \cup DigitSet \cup {"_"}

IsUpper(c) == c \in UpperSet
IsAlpha(c) == c \in AlphaSet
IsDigit(c) == c \in DigitSet
IsSpace(c) == c \in SpaceSet
IsWordChar(c) == c \in WordSet

DigitOf == [c \in DigitSet |-> (CHOOSE i \in DOMAIN DigitChars : DigitChars[i] = c) - 1]
DigitVal(c) == DigitOf[c]

LowerOf == [c \in UpperSet |-> LowerCase[CHOOSE i \in DOMAIN UpperCase : UpperCase[i] = c]]
lower_ch(c) == IF c \in UpperSet THEN LowerOf[c] ELSE c

\* str.lower
lower(s) == [i \in 1..Len(s) |-> lower_ch(s[i])]

\* s[a:b] with 0-based half-open Python indices already clamped: chars a+1..b
Slice(s, a, b) == IF b <= a THEN <<>> ELSE SubSeq(s, a + 1, b)

\* str.lstrip(chars) and str.rstrip(chars)
RECURSIVE LStripChars(_, _)
LStripChars(s, chars) ==
    IF s # <<>> /\ s[1] \in chars THEN LStripChars(Tail(s), chars) ELSE s

RECURSIVE RStripChars(_, _)
RStripChars(s, chars) ==
    IF s # <<>> /\ s[Len(s)] \in chars THEN RStripChars(SubSeq(s, 1, Len(s) - 1), chars) ELSE s

\* str.strip(chars)
StripChars(s, chars) == RStripChars(LStripChars(s, chars), chars)

\* str.strip()
strip(s) == StripChars(s, SpaceSet)

\* str.replace(a, b) for one-character a and b
ReplaceCh(s, a, b) == [i \in 1..Len(s) |-> IF s[i] = a THEN b ELSE s[i]]

\* str.replace(a, "") for one-character a
RemoveCh(s, a) == SelectSeq(s, LAMBDA c : c # a)

\* s.startswith(p) at offset: p occurs in s at 1-based position i
OccursAt(s, p, i) ==
    /\ i >= 1
    /\ i + Len(p) - 1 <= Len(s)
    /\ \A k \in 1..Len(p) : s[i + k - 1] = p[k]

\* p in s
Contains(s, p) == \E i \in 1..(Len(s) + 1) : OccursAt(s, p, i)

\* "\n".join(parts)
RECURSIVE JoinLines(_)
JoinLines(parts) ==
    IF parts = <<>> THEN <<>>
    ELSE IF Len(parts) = 1 THEN parts[1]
    ELSE parts[1] \o <<"\n">> \o JoinLines(Tail(parts))

\* the 1-based position of the first c in s from p on, 0 if none
RECURSIVE IndexFrom(_, _, _)
IndexFrom(s, c, p) ==
    IF p > Len(s) THEN 0 ELSE IF s[p] = c THEN p ELSE IndexFrom(s, c, p + 1)

\* str.splitlines()
RECURSIVE splitlines(_)
splitlines(s) ==
    IF s = <<>> THEN <<>>
    ELSE LET k == IndexFrom(s, "\n", 1)
         IN  IF k = 0 THEN <<s>>
             ELSE <<SubSeq(s, 1, k - 1)>> \o splitlines(SubSeq(s, k + 1, Len(s)))

\* re.sub(r"\s+", " ", s)
RECURSIVE CollapseSpace(_)
CollapseSpace(s) ==
    IF s = <<>> THEN <<>>
    ELSE IF IsSpace(s[1])
         THEN IF Len(s) > 1 /\ IsSpace(s[2]) THEN CollapseSpace(Tail(s))
              ELSE <<" ">> \o CollapseSpace(Tail(s))
         ELSE <<s[1]>> \o CollapseSpace(Tail(s))

\* the value None where a str is expected (no Python str has this shape)
NoStr == <<"<None>">>

-----------------------------------------------------------------------------
(* pipeline_inmemory.py, module constants.                                 *)

EXPECTED_HEADERS == <<
    <<"P","r","o","p","e","r","t","y">>,
    <<"M","o","r","t","g","a","g","e"," ","1","s","t">>,
    <<"M","o","r","t","g","a","g","e"," ","2","n","d">>,
    <<"I","n","t","e","r","e","s","t"," ","M","o","r","t","g","a","g","e"," ","1","s","t">>,
    <<"I","n","t","e","r","e","s","t"," ","M","o","r","t","g","a","g","e"," ","2","n","d">>,
    <<"T","a","x"," ","E","s","c","r","o","w">>,
    <<"E","s","c","r","o","w","-","I","n","s","u","r","a","n","c","e">>,
    <<"E","s","c","r","o","w","-","I","n","t","e","r","e","s","t"," ","R","e","s","e","r","v","e">>,
    <<"E","s","c","r","o","w","-","D","e","b","t"," ","S","e","r","v","i","c","e"," ","R","e","s","e","r","v","e">>,
    <<"E","s","c","r","o","w","-","I","m","m","e","d","i","a","t","e"," ","R","e","p","l","a","c","e","m","e","n","t"," ","R","e","s","e","r","v","e">>,
    <<"E","s","c","r","o","w","-","R","e","p","l","a","c","e","m","e","n","t"," ","R","e","s","e","r","v","e">>,
    <<"E","s","c","r","o","w","-","R","e","n","o","v","a","t","i","o","n"," ","R","e","s","e","r","v","e">>,
    <<"O","t","h","e","r"," ","E","s","c","r","o","w","s">> >>

H_Property == EXPECTED_HEADERS[1]
H_Mortgage1st == EXPECTED_HEADERS[2]
H_Mortgage2nd == EXPECTED_HEADERS[3]
H_Interest1st == EXPECTED_HEADERS[4]
H_Interest2nd == EXPECTED_HEADERS[5]
H_TaxEscrow == EXPECTED_HEADERS[6]
H_EscrowInsurance == EXPECTED_HEADERS[7]
H_OtherEscrows == EXPECTED_HEADERS[13]

\* the dict HEADER_SYNONYMS as a sequence of <<key, value>> pairs
HEADER_SYNONYMS == <<
    << <<"i","n","s","u","r","a","n","c","e"," ","e","s","c","r","o","w">>, H_EscrowInsurance >>,
    << <<"r","e","s","e","r","v","e","s"," ","b","a","l">>, H_OtherEscrows >>,
    << <<"r","e","s","e","r","v","e","s"," ","b","a","l","a","n","c","e">>, H_OtherEscrows >>,
    << <<"r","e","s","e","r","v","e"," ","b","a","l","a","n","c","e">>, H_OtherEscrows >>,
    << <<"t","a","x"," ","e","s","c","r","o","w">>, H_TaxEscrow >>,
    << <<"p","r","i","n","c","i","p","a","l"," ","b","a","l","a","n","c","e"," ","1","s","t">>, H_Mortgage1st >>,
    << <<"p","r","i","n","c","i","p","a","l"," ","b","a","l","a","n","c","e"," ","2","n","d">>, H_Mortgage2nd >>,
    << <<"i","n","t","e","r","e","s","t"," ","1","s","t">>, H_Interest1st >>,
    << <<"i","n","t","e","r","e","s","t"," ","2","n","d">>, H_Interest2nd >> >>

\* _norm
_norm(s) ==
    CollapseSpace(ReplaceCh(ReplaceCh(lower(strip(s)), "_", " "), "-", " "))

-----------------------------------------------------------------------------
(* Python floats, as far as short decimal tokens need them: a decimal      *)
(* number is (-1)^neg * mant * 10^exp; nan and inf are the special values  *)
(* float() also accepts.                                                   *)

NoValue == [kind |-> "none", neg |-> FALSE, mant |-> 0, exp |-> 0]
FloatError == [kind |-> "err", neg |-> FALSE, mant |-> 0, exp |-> 0]
Num(neg, mant, exp) == [kind |-> "num", neg |-> neg, mant |-> mant, exp |-> exp]

RECURSIVE Pow10(_)
Pow10(n) == IF n <= 0 THEN 1 ELSE 10 * Pow10(n - 1)

\* a == b for two floats (nan equals nothing, -0.0 == 0.0)
FloatEq(a, b) ==
    \/ /\ a.kind = "inf" /\ b.kind = "inf" /\ a.neg = b.neg
    \/ /\ a.kind = "num" /\ b.kind = "num"
       /\ LET m == IF a.exp < b.exp THEN a.exp ELSE b.exp
              x == a.mant * Pow10(a.exp - m)
              y == b.mant * Pow10(b.exp - m)
          IN  /\ x = y
              /\ (x = 0 \/ a.neg = b.neg)

\* -v
Negate(v) == [v EXCEPT !.neg = ~v.neg]

\* digitpart of the float grammar: digits, single underscores between digits
IsDigitPart(s) ==
    /\ s # <<>>
    /\ \A i \in 1..Len(s) : IsDigit(s[i]) \/ s[i] = "_"
    /\ IsDigit(s[1]) /\ IsDigit(s[Len(s)])
    /\ \A i \in 1..(Len(s) - 1) : ~(s[i] = "_" /\ s[i + 1] = "_")

RECURSIVE DigitsToNat(_)
DigitsToNat(s) ==
    IF s = <<>> THEN 0
    ELSE IF s[Len(s)] = "_" THEN DigitsToNat(SubSeq(s, 1, Len(s) - 1))
    ELSE 10 * DigitsToNat(SubSeq(s, 1, Len(s) - 1)) + DigitVal(s[Len(s)])

CountDigits(s) == Len(SelectSeq(s, IsDigit))

\* the first 1-based position of a character of cs in s, 0 if none
FirstOf(s, cs) ==
    LET hit == {i \in 1..Len(s) : s[i] \in cs}
    IN  IF hit = {} THEN 0 ELSE CHOOSE i \in hit : \A j \in hit : i <= j

\* the unsigned decimal part of float(): [digits][.[digits]][(e|E)[+-]digits]
ParseDecimal(u) ==
    LET e == FirstOf(u, {"e", "E"})
        m == IF e = 0 THEN u ELSE SubSeq(u, 1, e - 1)
        x == IF e = 0 THEN <<>> ELSE SubSeq(u, e + 1, Len(u))
        xsigned == x # <<>> /\ x[1] \in {"+", "-"}
        xd == IF xsigned THEN Tail(x) ELSE x
        xok == e = 0 \/ IsDigitPart(xd)
        xval == IF e = 0 THEN 0
                ELSE IF xsigned /\ x[1] = "-" THEN 0 - DigitsToNat(xd)
                ELSE DigitsToNat(xd)
        d == FirstOf(m, {"."})
        ip == IF d = 0 THEN m ELSE SubSeq(m, 1, d - 1)
        fp == IF d = 0 THEN <<>> ELSE SubSeq(m, d + 1, Len(m))
        mok == /\ ip = <<>> \/ IsDigitPart(ip)
               /\ fp = <<>> \/ IsDigitPart(fp)
               /\ ip # <<>> \/ fp # <<>>
    IN  IF xok /\ mok
        THEN Num(FALSE, DigitsToNat(ip \o fp), xval - CountDigits(fp))
        ELSE FloatError

\* float(s): surrounding whitespace, a sign, then nan, inf, infinity or a decimal
float(s) ==
    LET t == strip(s)
        signed == t # <<>> /\ t[1] \in {"+", "-"}
        neg == signed /\ t[1] = "-"
        u == IF signed THEN Tail(t) ELSE t
        lu == lower(u)
    IN  IF lu = <<"n","a","n">>
        THEN [kind |-> "nan", neg |-> neg, mant |-> 0, exp |-> 0]
        ELSE IF lu = <<"i","n","f">> \/ lu = <<"i","n","f","i","n","i","t","y">>
        THEN [kind |-> "inf", neg |-> neg, mant |-> 0, exp |-> 0]
        ELSE LET v == ParseDecimal(u)
             IN  IF v.kind = "err" THEN v ELSE [v EXCEPT !.neg = neg]

\* _parse_num
_parse_num(s) ==
    IF s = <<>> THEN NoValue
    ELSE LET t == strip(s)
             neg == t # <<>> /\ t[1] = "(" /\ t[Len(t)] = ")"
             u == IF neg THEN Slice(t, 1, Len(t) - 1) ELSE t
             w == RemoveCh(RemoveCh(u, "$"), ",")
             v == float(w)
         IN  IF v.kind = "err" THEN NoValue
             ELSE IF neg THEN Negate(v) ELSE v

-----------------------------------------------------------------------------
(* LINEVALS[0] and _label_val.                                             *)

\* [A-Za-z \-_/&]
LabelSet == AlphaSet \cup {" ", "-", "_", "/", "&"}
IsLabelChar(c) == c \in LabelSet
\* [:\s]
IsSepChar(c) == c = ":" \/ IsSpace(c)
\* [\d,]
IsValChar(c) == IsDigit(c) \/ c = ","

CharAt(s, i) == IF i >= 1 /\ i <= Len(s) THEN s[i] ELSE ""

\* the position after the longest run of [\d,] from p
RECURSIVE ValRunEnd(_, _)
ValRunEnd(s, p) ==
    IF p <= Len(s) /\ IsValChar(s[p]) THEN ValRunEnd(s, p + 1) ELSE p

\* where [\d,]+ starts when \(?\$? is matched greedily from k
ValDigitsFrom(s, k) ==
    LET p1 == IF CharAt(s, k) = "(" THEN k + 1 ELSE k
    IN  IF CharAt(s, p1) = "$" THEN p1 + 1 ELSE p1

\* (?P<val>...) matches at k
ValMatchesAt(s, k) == IsValChar(CharAt(s, ValDigitsFrom(s, k)))

\* the position after the val group matched at k (each part greedy)
ValEnd(s, k) ==
    LET p3 == ValRunEnd(s, ValDigitsFrom(s, k))
        p4 == IF CharAt(s, p3) = "." /\ IsDigit(CharAt(s, p3 + 1))
              THEN IF IsDigit(CharAt(s, p3 + 2)) THEN p3 + 3 ELSE p3 + 2
              ELSE p3
    IN  IF CharAt(s, p4) = ")" THEN p4 + 1 ELSE p4

\* the position after the longest run of [A-Za-z \-_/&] from p
RECURSIVE LabelRunEnd(_, _)
LabelRunEnd(s, p) ==
    IF p <= Len(s) /\ IsLabelChar(s[p]) THEN LabelRunEnd(s, p + 1) ELSE p

\* the position after the longest run of [:\s] from p
RECURSIVE SepRunEnd(_, _)
SepRunEnd(s, p) ==
    IF p <= Len(s) /\ IsSepChar(s[p]) THEN SepRunEnd(s, p + 1) ELSE p

\* the val starts k with which [:\s]+(?P<val>...) matches from j
SepMatches(s, j) == {k \in (j + 1)..SepRunEnd(s, j) : ValMatchesAt(s, k)}

\* the label ends j with which the whole pattern matches from i
LabelMatches(s, i) == {j \in (i + 1)..LabelRunEnd(s, i) : SepMatches(s, j) # {}}

Max(S) == CHOOSE a \in S : \A b \in S : a >= b
Min(S) == CHOOSE a \in S : \A b \in S : a <= b

NoMatch == [found |-> FALSE, label |-> <<>>, val |-> <<>>]

\* rx.search(line): the leftmost start; the label, then the separator, greedy
rx_search(s) ==
    LET starts == {i \in 1..Len(s) : LabelMatches(s, i) # {}}
    IN  IF starts = {} THEN NoMatch
        ELSE LET i == Min(starts)
                 j == Max(LabelMatches(s, i))
                 k == Max(SepMatches(s, j))
             IN  [found |-> TRUE,
                  label |-> SubSeq(s, i, j - 1),
                  val |-> SubSeq(s, k, ValEnd(s, k) - 1)]

\* line.rsplit(" ", 1)
rsplit1(s) ==
    LET sp == {i \in 1..Len(s) : s[i] = " "}
    IN  IF sp = {} THEN <<s>>
        ELSE LET k == CHOOSE i \in sp : \A j \in sp : i >= j
             IN  <<SubSeq(s, 1, k - 1), SubSeq(s, k + 1, Len(s))>>

NoLabelVal == [ok |-> FALSE, label |-> <<>>, val |-> NoValue]
LabelVal(l, v) == [ok |-> TRUE, label |-> l, val |-> v]

\* the fallback of _label_val: the last blank-separated token as the value
LabelValFallback(line) ==
    LET toks == rsplit1(line)
    IN  IF Len(toks) = 2 /\ _parse_num(toks[2]) # NoValue
        THEN LabelVal(StripChars(toks[1], {" ", ":", ".", "-"}), _parse_num(toks[2]))
        ELSE NoLabelVal

\* _label_val
_label_val(line) ==
    LET m == rx_search(line)
    IN  IF m.found /\ _parse_num(m.val) # NoValue
        THEN LabelVal(strip(m.label), _parse_num(m.val))
        ELSE LabelValFallback(line)

-----------------------------------------------------------------------------
(* The vendor-rule table: a DataFrame with the columns Vendor, Pattern,    *)
(* MappedHeader, DetectPattern, as a sequence of rows. Vendor is an atomic *)
(* name; the other cells are strings.                                      *)

NoTable == [present |-> FALSE, rows |-> <<>>]
Table(rows) == [present |-> TRUE, rows |-> rows]
Rule(v, pat, mapped, detect) ==
    [Vendor |-> v, Pattern |-> pat, MappedHeader |-> mapped, DetectPattern |-> detect]

\* the value None where a vendor is expected
NoVendor == "<None>"

\* the vendor names of the model in sorted order, the order of groupby("Vendor")
VendorOrder == <<"", "Acme", "Bravo", "Colt">>

\* re.search(pat, text, re.I | re.M) for a pattern without metacharacters
re_search_literal(pat, text) == Contains(lower(text), lower(pat))

\* the score with a matching DetectPattern counted 1, like a Pattern
RECURSIVE GroupScoreFlat(_, _)
GroupScoreFlat(grp, full_text) ==
    IF grp = <<>> THEN 0
    ELSE LET row == grp[Len(grp)]
             d == IF row.DetectPattern # <<>> /\ re_search_literal(row.DetectPattern, full_text)
                  THEN 1 ELSE 0
             p == IF row.Pattern # <<>> /\ Contains(lower(full_text), lower(row.Pattern))
                  THEN 1 ELSE 0
         IN  GroupScoreFlat(SubSeq(grp, 1, Len(grp) - 1), full_text) + d + p

\* the score the loop body of _detect_vendor accumulates over the rows of one group
RECURSIVE GroupScore(_, _)
GroupScore(grp, full_text) ==
    IF grp = <<>> THEN 0
    ELSE LET row == grp[Len(grp)]
             d == IF row.DetectPattern # <<>> /\ re_search_literal(row.DetectPattern, full_text)
                  THEN 5 ELSE 0
             p == IF row.Pattern # <<>> /\ Contains(lower(full_text), lower(row.Pattern))
                  THEN 1 ELSE 0
         IN  GroupScore(SubSeq(grp, 1, Len(grp) - 1), full_text) + d + p

\* vendor_df.groupby("Vendor"): the group of one key, rows in table order
Group(rows, v) == SelectSeq(rows, LAMBDA row : row.Vendor = v)

\* max(scores, key=scores.get) over the keys in insertion order: the first maximum
RECURSIVE FirstMax(_, _, _)
FirstMax(keys, score, best) ==
    IF keys = <<>> THEN best
    ELSE IF score[keys[1]] > 0 /\ (best = NoVendor \/ score[keys[1]] > score[best])
         THEN FirstMax(Tail(keys), score, keys[1])
         ELSE FirstMax(Tail(keys), score, best)

\* _detect_vendor, with the guard of its call in run_pipeline_in_memory
_detect_vendor(full_text, df) ==
    IF ~df.present \/ df.rows = <<>> THEN NoVendor
    ELSE LET keys == SelectSeq(VendorOrder, LAMBDA v : \E i \in DOMAIN df.rows : df.rows[i].Vendor = v)
             score == [v \in Range(keys) |-> GroupScore(Group(df.rows, v), full_text)]
         IN  FirstMax(keys, score, NoVendor)

\* EXPECTED_HEADERS.index(hdr), 0 when hdr is no member
HeaderIndex(h) ==
    IF \E i \in DOMAIN EXPECTED_HEADERS : EXPECTED_HEADERS[i] = h
    THEN (CHOOSE i \in DOMAIN EXPECTED_HEADERS : EXPECTED_HEADERS[i] = h) - 1
    ELSE 0 - 1

IsCanonical(h) == \E i \in DOMAIN EXPECTED_HEADERS : EXPECTED_HEADERS[i] = h

\* the rule loop without the test that MappedHeader is canonical
RECURSIVE FirstRuleHeaderUnchecked(_, _)
FirstRuleHeaderUnchecked(sub, lbl) ==
    IF sub = <<>> THEN NoStr
    ELSE IF sub[1].Pattern # <<>> /\ Contains(lower(lbl), lower(sub[1].Pattern))
         THEN sub[1].MappedHeader
         ELSE FirstRuleHeaderUnchecked(Tail(sub), lbl)

\* the loop over sub.iterrows() in _map_header: the first usable rule's header
RECURSIVE FirstRuleHeader(_, _)
FirstRuleHeader(sub, lbl) ==
    IF sub = <<>> THEN NoStr
    ELSE IF /\ sub[1].Pattern # <<>>
            /\ Contains(lower(lbl), lower(sub[1].Pattern))
            /\ IsCanonical(sub[1].MappedHeader)
         THEN sub[1].MappedHeader
         ELSE FirstRuleHeader(Tail(sub), lbl)

\* the part of _map_header after the vendor rules
MapGeneric(lbl) ==
    LET n == _norm(lbl)
    IN  IF \E i \in DOMAIN HEADER_SYNONYMS : HEADER_SYNONYMS[i][1] = n
        THEN HEADER_SYNONYMS[CHOOSE i \in DOMAIN HEADER_SYNONYMS : HEADER_SYNONYMS[i][1] = n][2]
        ELSE IF \E i \in DOMAIN EXPECTED_HEADERS : _norm(EXPECTED_HEADERS[i]) = n
        THEN EXPECTED_HEADERS[CHOOSE i \in DOMAIN EXPECTED_HEADERS :
                 /\ _norm(EXPECTED_HEADERS[i]) = n
                 /\ \A j \in 1..(i - 1) : _norm(EXPECTED_HEADERS[j]) # n]
        ELSE IF Contains(n, <<"r","e","s","e","r","v","e">>)
        THEN H_OtherEscrows
        ELSE NoStr

\* the rows _map_header searches: the vendor's, or all when vendor is falsy
RuleRows(v, df) ==
    IF v # NoVendor /\ v # "" THEN Group(df.rows, v) ELSE df.rows

\* _map_header with the synonym table and the canonical headers tried first
_map_header_generic_first(lbl, v, df) ==
    LET byRule == IF df.present /\ df.rows # <<>>
                  THEN FirstRuleHeader(RuleRows(v, df), lbl)
                  ELSE NoStr
    IN  IF MapGeneric(lbl) # NoStr THEN MapGeneric(lbl) ELSE byRule

\* _map_header
_map_header(lbl, v, df) ==
    LET byRule == IF df.present /\ df.rows # <<>>
                  THEN FirstRuleHeader(RuleRows(v, df), lbl)
                  ELSE NoStr
    IN  IF byRule # NoStr THEN byRule ELSE MapGeneric(lbl)

-----------------------------------------------------------------------------
(* The property directory: a DataFrame with the columns PropertyCode and   *)
(* PropertyName, as a sequence of rows; and _resolve_property.             *)

DirRow(code, name) == [PropertyCode |-> code, PropertyName |-> name]

\* the keys of dict(zip(keys, values)): first occurrences, in order
RECURSIVE DictKeys(_)
DictKeys(ks) ==
    IF ks = <<>> THEN <<>>
    ELSE LET init == SubSeq(ks, 1, Len(ks) - 1)
             last == ks[Len(ks)]
         IN  IF \E i \in DOMAIN init : init[i] = last
             THEN DictKeys(init)
             ELSE Append(DictKeys(init), last)

\* list(code2name), code2name = dict(zip(PropertyCode, PropertyName))
Codes(df) == DictKeys([i \in DOMAIN df |-> df[i].PropertyCode])
\* list(name2code), name2code = dict(zip(PropertyName, PropertyCode))
Names(df) == DictKeys([i \in DOMAIN df |-> df[i].PropertyName])
\* name2code[n]: the code of the last row with this name
Name2Code(df, n) ==
    df[CHOOSE i \in DOMAIN df :
          /\ df[i].PropertyName = n
          /\ \A j \in DOMAIN df : df[j].PropertyName = n => j <= i].PropertyCode

\* \b at the 1-based position p of t (between t[p-1] and t[p])
WordBoundary(t, p) ==
    (p > 1 /\ IsWordChar(t[p - 1])) # (p <= Len(t) /\ IsWordChar(t[p]))

\* re.search(rf"\b{re.escape(w)}\b", text, re.I)
WordSearch(w, text) ==
    \E i \in 1..(Len(text) + 1) :
        /\ OccursAt(lower(text), lower(w), i)
        /\ WordBoundary(text, i)
        /\ WordBoundary(text, i + Len(w))

\* the first element of a sequence satisfying a test, NoStr if none
FirstWordHit(ws_, text) ==
    LET hit == {i \in DOMAIN ws_ : WordSearch(ws_[i], text)}
    IN  IF hit = {} THEN NoStr
        ELSE ws_[CHOOSE i \in hit : \A j \in hit : i <= j]

\* the acceptance threshold of the fuzzy stage
FuzzyThreshold == 92

\* process.extractOne(text, names, scorer=fuzz.partial_ratio): the first name with
\* the best score; ratio[n] is the score the scorer gives the text against n
NoExtract == [found |-> FALSE, name |-> NoStr, score |-> 0]
extractOne(names, ratio) ==
    IF names = <<>> THEN NoExtract
    ELSE LET i == CHOOSE a \in DOMAIN names :
                      /\ \A b \in DOMAIN names : ratio[names[a]] >= ratio[names[b]]
                      /\ \A b \in 1..(a - 1) : ratio[names[b]] < ratio[names[a]]
         IN  [found |-> TRUE, name |-> names[i], score |-> ratio[names[i]]]

Resolved(c) == [ok |-> TRUE, code |-> c]
\* raise RuntimeError("Clarification needed: PropertyCode not found")
ClarificationNeeded == [ok |-> FALSE, code |-> NoStr]

\* _resolve_property with the fuzzy stage accepting a score of 80
_resolve_property_lowbar(full_text, df, ratio) ==
    LET byCode == FirstWordHit(Codes(df), full_text)
        byName == FirstWordHit(Names(df), full_text)
        m == extractOne(Names(df), ratio)
    IN  IF byCode # NoStr THEN Resolved(byCode)
        ELSE IF byName # NoStr THEN Resolved(Name2Code(df, byName))
        ELSE IF m.found /\ m.score >= 80 THEN Resolved(Name2Code(df, m.name))
        ELSE ClarificationNeeded

\* _resolve_property with the names searched before the codes
_resolve_property_names_first(full_text, df, ratio) ==
    LET byCode == FirstWordHit(Codes(df), full_text)
        byName == FirstWordHit(Names(df), full_text)
        m == extractOne(Names(df), ratio)
    IN  IF byName # NoStr THEN Resolved(Name2Code(df, byName))
        ELSE IF byCode # NoStr THEN Resolved(byCode)
        ELSE IF m.found /\ m.score >= FuzzyThreshold THEN Resolved(Name2Code(df, m.name))
        ELSE ClarificationNeeded

\* _resolve_property; df stands for name2code and code2name, ratio for the scorer
_resolve_property(full_text, df, ratio) ==
    LET byCode == FirstWordHit(Codes(df), full_text)
        byName == FirstWordHit(Names(df), full_text)
        m == extractOne(Names(df), ratio)
    IN  IF byCode # NoStr THEN Resolved(byCode)
        ELSE IF byName # NoStr THEN Resolved(Name2Code(df, byName))
        ELSE IF m.found /\ m.score >= FuzzyThreshold THEN Resolved(Name2Code(df, m.name))
        ELSE ClarificationNeeded

-----------------------------------------------------------------------------
(* The worksheet: a function from <<row, column>> to a cell value; a cell  *)
(* outside its domain is empty.                                            *)

Empty == [t |-> "none", v |-> 0]
IntCell(n) == [t |-> "int", v |-> n]
StrCell(s) == [t |-> "str", v |-> s]
FloatCell(x) == [t |-> "float", v |-> x]

EmptySheet == [k \in {} |-> Empty]

\* two cells hold the same value of the same type
CellEq(a, b) == a.t = b.t /\ a.v = b.v

\* ws.cell(row, col).value
CellValue(sheet, row, col) ==
    IF <<row, col>> \in DOMAIN sheet THEN sheet[<<row, col>>] ELSE Empty

\* ws.cell(row, col, value)
SetCell(sheet, row, col, value) ==
    [k \in DOMAIN sheet \cup {<<row, col>>} |->
        IF k = <<row, col>> THEN value ELSE sheet[k]]

\* the row of the column headers, and the first row of data
HeaderRow == 4
FirstDataRow == 5

\* the clearing loop started one row too low
ClearDataBelowFirstRow(sheet) ==
    [k \in DOMAIN sheet |-> IF k[1] > FirstDataRow THEN Empty ELSE sheet[k]]

\* for row in ws.iter_rows(min_row=5, ...): for c in row: c.value = None
ClearData(sheet) ==
    [k \in DOMAIN sheet |-> IF k[1] >= FirstDataRow THEN Empty ELSE sheet[k]]

\* ws.cell(4, i, h) for i, h in enumerate(EXPECTED_HEADERS, start=2), from column i
RECURSIVE WriteHeaders(_, _)
WriteHeaders(sheet, i) ==
    IF i - 1 > Len(EXPECTED_HEADERS) THEN sheet
    ELSE WriteHeaders(SetCell(sheet, HeaderRow, i, StrCell(EXPECTED_HEADERS[i - 1])), i + 1)

\* a template workbook: whether bytes were given, whether they hold the sheet
\* "Mortgage Import", and that sheet's cells
NoTemplate == [present |-> FALSE, has_sheet |-> FALSE, cells |-> EmptySheet]
Template(has_sheet, cells) == [present |-> TRUE, has_sheet |-> has_sheet, cells |-> cells]

\* _prep_template
_prep_template(xlsx) ==
    LET sheet == IF xlsx.present /\ xlsx.has_sheet THEN xlsx.cells ELSE EmptySheet
    IN  WriteHeaders(SetCell(ClearData(sheet), HeaderRow, 1, StrCell(<<"#">>)), 2)

\* the append with the sheet row written as the sequence number
AppendRowNumberedByRow(sheet, row, seq, code, col, value) ==
    SetCell(SetCell(SetCell(sheet, row, 1, IntCell(row)), row, 2, StrCell(code)),
            row, col, FloatCell(value))

\* ws.cell(r,1,cnt); ws.cell(r,2,prop); ws.cell(r,col,lv[1])
AppendRow(sheet, row, seq, code, col, value) ==
    SetCell(SetCell(SetCell(sheet, row, 1, IntCell(seq)), row, 2, StrCell(code)),
            row, col, FloatCell(value))

\* col = EXPECTED_HEADERS.index(hdr) + 2
ColumnOf(h) == HeaderIndex(h) + 2

-----------------------------------------------------------------------------
(* Documents. A document is what extract_text_or_ocr recovers from it: the *)
(* full text, from which the lines are split. ratio is what                *)
(* fuzz.partial_ratio scores the text against each known property name.    *)

Doc(full, ratio) == [full |-> full, ratio |-> ratio]

\* [ln.strip() for ln in t.splitlines() if ln.strip()]
TextLines(full) ==
    LET raw == splitlines(full)
        stripped == [i \in DOMAIN raw |-> strip(raw[i])]
    IN  SelectSeq(stripped, LAMBDA ln : ln # <<>>)

\* extract_text_or_ocr: <<full text, lines>>
extract_text_or_ocr(blob) == <<blob.full, TextLines(blob.full)>>

-----------------------------------------------------------------------------
(* One call of a pure helper.                                              *)

Pending == [kind |-> "pending"]
NoCall == [fn |-> "none"]

\* the pipeline's variables while only a helper is exercised
PipeIdle ==
    /\ pdf_blobs = <<>> /\ datagrid_df = <<>> /\ vendor_df = NoTable
    /\ template_bytes = NoTemplate /\ ws = EmptySheet
    /\ r = 0 /\ cnt = 0 /\ di = 0 /\ li = 0
    /\ vendor = NoVendor /\ prop = NoStr /\ lv = NoLabelVal /\ hdr = NoStr
    /\ pc = "idle" /\ out = [present |-> FALSE, sheet |-> EmptySheet] /\ rowlog = <<>>

\* the length bound on enumerated numeric tokens
MaxTokLen == 3

TokAlphabet == {"$", ",", "(", ")", ".", "1", "5", "n", "a", "/", " "}

RECURSIVE StringsUpTo(_, _)
StringsUpTo(alphabet, n) ==
    IF n = 0 THEN {<<>>}
    ELSE LET shorter == StringsUpTo(alphabet, n - 1)
         IN  shorter \cup {Append(s, c) : s \in {t \in shorter : Len(t) = n - 1}, c \in alphabet}

\* the tokens named by the specification's examples, and more of the float grammar
ExampleTokens == {
    <<"$","1",",","2","3","4",".","5","6">>,
    <<"(","5","0","0",")">>,
    <<"n","a","n">>, <<"i","n","f">>, <<"1","e","5">>, <<"1","_","0">>,
    <<"$","1",",","2","0","0",".","0","0">>,
    <<"(","$","1",".","5",")">>, <<"1","$","2">> }

NumTokens == StringsUpTo(TokAlphabet, MaxTokLen) \cup ExampleTokens

InitNum ==
    /\ PipeIdle
    /\ call \in {[fn |-> "_parse_num", s |-> t] : t \in NumTokens}
    /\ ret = Pending

CallParseNum ==
    /\ call.fn = "_parse_num" /\ ret = Pending
    /\ ret' = _parse_num(call.s)
    /\ UNCHANGED <<pipeVars, call>>

NextNum == CallParseNum

SpecNum == InitNum /\ [][NextNum]_vars

-----------------------------------------------------------------------------
(* The inputs the batch is drawn from.                                     *)

C_105Main == <<"1","0","5","-","M","a","i","n">>
N_MainStreet == <<"M","a","i","n"," ","S","t","r","e","e","t"," ","A","p","a","r","t","m","e","n","t","s">>
C_200 == <<"2","0","0">>
N_OakCourt == <<"O","a","k"," ","C","o","u","r","t">>
C_7 == <<"7">>
N_Elm == <<"E","l","m">>
L_Property105 == <<"P","r","o","p","e","r","t","y",":"," ","1","0","5","-","M","a","i","n">>
L_TaxEscrow1200 == <<"T","a","x"," ","E","s","c","r","o","w",":"," ","$","1",",","2","0","0",".","0","0">>
L_AcmeLoan == <<"A","c","m","e"," ","L","o","a","n"," ","S","e","r","v","i","c","i","n","g">>
L_OakCourt == <<"O","a","k"," ","C","o","u","r","t">>
L_PrincipalBal == <<"P","r","i","n","c","i","p","a","l"," ","B","a","l",":"," ","2",",","0","0","0">>
L_ReserveBalance == <<"R","e","s","e","r","v","e"," ","B","a","l","a","n","c","e"," ","3","0","0">>
L_NA == <<"n","/","a">>
L_Statement200 == <<"S","t","a","t","e","m","e","n","t"," ","2","0","0">>
L_InsuranceEscrow == <<"I","n","s","u","r","a","n","c","e"," ","E","s","c","r","o","w",":"," ","(","5","0","0",")">>
L_MainStreet == <<" "," ","M","a","i","n"," ","S","t","r","e","e","t"," ","A","p","a","r","t","m","e","n","t","s"," ">>
L_MainStret == <<"M","a","i","n"," ","S","t","r","e","t"," ","A","p","t","s">>
L_Interest1st == <<"I","n","t","e","r","e","s","t"," ","1","s","t"," ","1","2",".","5">>
L_BravoBank == <<"B","r","a","v","o"," ","B","a","n","k">>
L_Unknown == <<"U","n","k","n","o","w","n"," ","p","l","a","c","e">>
L_TaxEscrow10 == <<"T","a","x"," ","E","s","c","r","o","w"," ","1","0">>
PAT_PrincipalBal == <<"p","r","i","n","c","i","p","a","l"," ","b","a","l">>
PAT_TaxEscrow == <<"T","a","x"," ","E","s","c","r","o","w">>
PAT_Reserve == <<"R","e","s","e","r","v","e">>
PAT_Escrow == <<"e","s","c","r","o","w">>
DET_AcmeLoan == <<"a","c","m","e"," ","l","o","a","n">>
DET_Bravo == <<"B","r","a","v","o">>
HDR_Reserves == <<"R","e","s","e","r","v","e","s">>
S_Notes == <<"N","o","t","e","s">>
S_Old == <<"O","L","D">>
S_Title == <<"T","i","t","l","e">>

Prop105 == DirRow(C_105Main, N_MainStreet)
Prop200 == DirRow(C_200, N_OakCourt)
Prop7 == DirRow(C_7, N_Elm)

NameUniverse == {N_MainStreet, N_OakCourt, N_Elm}
Ratio(main, oak, elm) ==
    [n \in NameUniverse |-> IF n = N_MainStreet THEN main ELSE IF n = N_OakCourt THEN oak ELSE elm]

\* the end-to-end scenario of the specification
DocScenario == Doc(JoinLines(<<L_Property105, L_TaxEscrow1200>>), Ratio(40, 30, 50))
\* a property name as a whole word, a vendor, a line without a value
DocOak == Doc(JoinLines(<<L_AcmeLoan, L_OakCourt, L_ReserveBalance, L_NA, L_PrincipalBal>>),
              Ratio(35, 100, 40))
\* a property code and another property's name
DocBoth == Doc(JoinLines(<<L_Statement200, L_InsuranceEscrow, <<>>, L_MainStreet>>),
               Ratio(100, 45, 40))
\* a name only the fuzzy stage recognises
DocFuzzy == Doc(JoinLines(<<L_MainStret, L_Interest1st>>), Ratio(93, 30, 60))
\* no property at all: the best fuzzy score is 80
DocUnknown == Doc(JoinLines(<<L_BravoBank, L_Unknown, L_TaxEscrow10>>), Ratio(80, 42, 50))

DocPool == {DocScenario, DocOak, DocBoth, DocFuzzy, DocUnknown}

Directories == {<<Prop105>>, <<Prop105, Prop200>>, <<Prop200, Prop105>>}

\* rules of two vendors; one rule maps to a header that is not canonical
RulesMain == <<
    Rule("Bravo", PAT_TaxEscrow, H_EscrowInsurance, DET_Bravo),
    Rule("Acme", PAT_Reserve, HDR_Reserves, DET_AcmeLoan),
    Rule("Acme", PAT_PrincipalBal, H_Mortgage1st, <<>>) >>

VendorTables == {NoTable, Table(<<>>), Table(RulesMain)}

\* a template with rows left from an earlier import and a fifteenth column
StaleCells ==
    (<<2, 1>> :> StrCell(S_Title)) @@ (<<4, 1>> :> StrCell(S_Old)) @@
    (<<4, 15>> :> StrCell(S_Notes)) @@ (<<5, 1>> :> IntCell(9)) @@
    (<<5, 2>> :> StrCell(S_Old)) @@ (<<5, 7>> :> FloatCell(Num(FALSE, 77, 0))) @@
    (<<9, 3>> :> FloatCell(Num(FALSE, 1, 0))) @@ (<<6, 15>> :> StrCell(S_Notes))

Templates == {NoTemplate, Template(TRUE, StaleCells), Template(FALSE, StaleCells)}

\* the largest batch
MaxDocs == 2

RECURSIVE SeqsUpTo(_, _)
SeqsUpTo(S, n) ==
    IF n = 0 THEN {<<>>}
    ELSE LET shorter == SeqsUpTo(S, n - 1)
         IN  shorter \cup {Append(q, x) : q \in {t \in shorter : Len(t) = n - 1}, x \in S}

Batches == SeqsUpTo(DocPool, MaxDocs)

-----------------------------------------------------------------------------
(* run_pipeline_in_memory.                                                 *)

NoOutput == [present |-> FALSE, sheet |-> EmptySheet]

CallIdle == call = NoCall /\ ret = Pending

Init ==
    /\ pdf_blobs \in Batches
    /\ datagrid_df \in Directories
    /\ vendor_df \in VendorTables
    /\ template_bytes \in Templates
    /\ ws = EmptySheet /\ r = 0 /\ cnt = 0 /\ di = 0 /\ li = 0
    /\ vendor = NoVendor /\ prop = NoStr /\ lv = NoLabelVal /\ hdr = NoStr
    /\ pc = "start" /\ out = NoOutput /\ rowlog = <<>>
    /\ CallIdle

\* wb, ws = _prep_template(template_bytes); the second clearing loop; r, cnt = 5, 1
Prepare ==
    /\ pc = "start"
    /\ ws' = ClearData(_prep_template(template_bytes))
    /\ r' = FirstDataRow /\ cnt' = 1
    /\ di' = 1 /\ pc' = "doc"
    /\ UNCHANGED <<pdf_blobs, datagrid_df, vendor_df, template_bytes, li, vendor,
                   prop, lv, hdr, out, rowlog, call, ret>>

\* the head of the document loop: extraction, vendor detection, property resolution
StartDoc ==
    /\ pc = "doc" /\ di <= Len(pdf_blobs)
    /\ LET blob == pdf_blobs[di]
           full == extract_text_or_ocr(blob)[1]
           res == _resolve_property(full, datagrid_df, blob.ratio)
       IN  /\ vendor' = IF vendor_df.present THEN _detect_vendor(full, vendor_df) ELSE NoVendor
           /\ IF res.ok
              THEN prop' = res.code /\ li' = 1 /\ pc' = "line"
              ELSE prop' = prop /\ li' = li /\ pc' = "raised"
    /\ UNCHANGED <<pdf_blobs, datagrid_df, vendor_df, template_bytes, ws, r, cnt, di,
                   lv, hdr, out, rowlog, call, ret>>

\* one iteration of the line loop
ProcessLine ==
    /\ pc = "line"
    /\ LET lines == extract_text_or_ocr(pdf_blobs[di])[2]
       IN  /\ li <= Len(lines)
           /\ lv' = _label_val(lines[li])
           /\ hdr' = IF lv'.ok THEN _map_header(lv'.label, vendor, vendor_df) ELSE hdr
           /\ IF lv'.ok /\ hdr' # NoStr
              THEN /\ ws' = AppendRow(ws, r, cnt, prop, ColumnOf(hdr'), lv'.val)
                   /\ r' = r + 1 /\ cnt' = cnt + 1
                   /\ rowlog' = Append(rowlog, [doc |-> di, line |-> li, row |-> r, seq |-> cnt,
                                                prop |-> prop, hdr |-> hdr', val |-> lv'.val])
              ELSE UNCHANGED <<ws, r, cnt, rowlog>>
           /\ li' = li + 1
    /\ UNCHANGED <<pdf_blobs, datagrid_df, vendor_df, template_bytes, di, vendor, prop,
                   pc, out, call, ret>>

\* the line loop is exhausted: the next document
EndDoc ==
    /\ pc = "line"
    /\ li > Len(extract_text_or_ocr(pdf_blobs[di])[2])
    /\ di' = di + 1 /\ pc' = "doc"
    /\ UNCHANGED <<pdf_blobs, datagrid_df, vendor_df, template_bytes, ws, r, cnt, li,
                   vendor, prop, lv, hdr, out, rowlog, call, ret>>

\* out = io.BytesIO(); wb.save(out); return out
Finish ==
    /\ pc = "doc" /\ di > Len(pdf_blobs)
    /\ out' = [present |-> TRUE, sheet |-> ws]
    /\ pc' = "done"
    /\ UNCHANGED <<pdf_blobs, datagrid_df, vendor_df, template_bytes, ws, r, cnt, di, li,
                   vendor, prop, lv, hdr, rowlog, call, ret>>

Next == Prepare \/ StartDoc \/ ProcessLine \/ EndDoc \/ Finish

Spec == Init /\ [][Next]_vars

-----------------------------------------------------------------------------
(* Properties of run_pipeline_in_memory, checked under Spec.               *)

\* the lines of document d whose iteration of the line loop is over
LineDone(d, l) == d < di \/ (d = di /\ pc = "line" /\ l < li)

\* no directory code and no directory name is a whole word of the text, and no
\* name scores 92 or more
ResolutionFails(blob, df) ==
    /\ \A i \in DOMAIN df : ~WordSearch(df[i].PropertyCode, blob.full)
    /\ \A i \in DOMAIN df : ~WordSearch(df[i].PropertyName, blob.full)
    /\ \A i \in DOMAIN df : blob.ratio[df[i].PropertyName] < 92

FailingDocs == {d \in DOMAIN pdf_blobs : ResolutionFails(pdf_blobs[d], datagrid_df)}

\* C1: if property resolution fails for a document of the batch, the run raises at
\* that document: no workbook is ever returned, the rows appended for earlier
\* documents stay in the discarded workbook, and no row is written for the
\* unresolved document or a later one.
C1_FailFast ==
    FailingDocs # {} =>
        /\ ~out.present
        /\ pc # "done"
        /\ di <= Min(FailingDocs)
        /\ (di = Min(FailingDocs) => pc \in {"doc", "raised"})
        /\ \A k \in DOMAIN rowlog : rowlog[k].doc < Min(FailingDocs)
        /\ (pc = "raised" => r = FirstDataRow + Len(rowlog))

\* the run raised after rows of an earlier document had been appended
C1_Witness ==
    /\ pc = "raised" /\ di = 2
    /\ ResolutionFails(pdf_blobs[2], datagrid_df)
    /\ rowlog # <<>> /\ CellEq(CellValue(ws, FirstDataRow, 1), IntCell(1))
    /\ ~out.present

\* C2: the header a line is mapped to is a canonical header or none, and every
\* parsed value on the sheet stands in the column of a canonical header, also
\* with vendor rules whose MappedHeader is not canonical.
C2_CanonicalHeader ==
    /\ hdr = NoStr \/ IsCanonical(hdr)
    /\ \A k \in DOMAIN rowlog : IsCanonical(rowlog[k].hdr)
    /\ \A key \in DOMAIN ws :
          (key[1] >= FirstDataRow /\ ws[key].t = "float") =>
              /\ key[2] \in 2..(Len(EXPECTED_HEADERS) + 1)
              /\ CellEq(CellValue(ws, HeaderRow, key[2]), StrCell(EXPECTED_HEADERS[key[2] - 1]))

\* a label matched a rule of the detected vendor whose MappedHeader is not
\* canonical, and the row went to a canonical column all the same
C2_Witness ==
    /\ pc = "line" /\ vendor = "Acme" /\ lv.ok
    /\ \E i \in DOMAIN vendor_df.rows :
          /\ vendor_df.rows[i].Vendor = "Acme"
          /\ ~IsCanonical(vendor_df.rows[i].MappedHeader)
          /\ Contains(lower(lv.label), lower(vendor_df.rows[i].Pattern))
    /\ hdr = H_OtherEscrows
    /\ rowlog # <<>> /\ rowlog[Len(rowlog)].line = li - 1
    /\ CellValue(ws, r - 1, 14).t = "float"

\* C3: every appended row holds its sequence number in column 1, the property
\* code of its document in column 2 and the parsed value in the column of its
\* header, for every canonical header, "Property" included.
C3_RowContents ==
    \A k \in DOMAIN rowlog :
        LET e == rowlog[k]
        IN  /\ CellEq(CellValue(ws, e.row, 1), IntCell(e.seq))
            /\ CellEq(CellValue(ws, e.row, 2), StrCell(e.prop))
            /\ CellEq(CellValue(ws, e.row, ColumnOf(e.hdr)), FloatCell(e.val))

\* the non-empty cells of one sheet row
RowCells(sheet, row) == {key \in DOMAIN sheet : key[1] = row /\ sheet[key].t # "none"}

\* C4: the end-to-end scenario (one document with the lines "Property: 105-Main"
\* and "Tax Escrow: $1,200.00", the directory row 105-Main, no vendor rules)
\* yields exactly one output row: sequence 1, property code 105-Main, 1200.00
\* under Tax Escrow.
C4_Scenario ==
    (/\ pc = "done"
     /\ pdf_blobs = <<DocScenario>>
     /\ datagrid_df = <<Prop105>>
     /\ vendor_df = NoTable) =>
        /\ RowCells(out.sheet, FirstDataRow) = {<<5, 1>>, <<5, 2>>, <<5, 7>>}
        /\ CellEq(CellValue(out.sheet, 5, 1), IntCell(1))
        /\ CellEq(CellValue(out.sheet, 5, 2), StrCell(C_105Main))
        /\ CellValue(out.sheet, 5, 7).t = "float"
        /\ FloatEq(CellValue(out.sheet, 5, 7).v, Num(FALSE, 120000, 0 - 2))
        /\ \A key \in DOMAIN out.sheet : key[1] > FirstDataRow => out.sheet[key].t = "none"

\* the vendor the document loop detects for document d
VendorOf(d) ==
    IF vendor_df.present THEN _detect_vendor(pdf_blobs[d].full, vendor_df) ELSE NoVendor

\* line l of document d yields a value and a canonical header
Accepted(d, l) ==
    LET x == _label_val(TextLines(pdf_blobs[d].full)[l])
    IN  x.ok /\ _map_header(x.label, VendorOf(d), vendor_df) # NoStr

\* C5: sequence numbers are global: the k-th row below the header row carries
\* sequence k, with no gap and no repeat; the rows stand in document order and,
\* within a document, in line order; exactly the lines that yield a value and a
\* canonical header have a row, the others advance nothing.
C5_Sequence ==
    pc # "start" =>
        /\ cnt = Len(rowlog) + 1
        /\ r = FirstDataRow + Len(rowlog)
        /\ \A k \in DOMAIN rowlog :
              /\ rowlog[k].row = HeaderRow + k
              /\ rowlog[k].seq = k
              /\ CellEq(CellValue(ws, HeaderRow + k, 1), IntCell(k))
        /\ \A key \in DOMAIN ws : key[1] >= r => ws[key].t = "none"
        /\ \A k \in 1..(Len(rowlog) - 1) :
              \/ rowlog[k].doc < rowlog[k + 1].doc
              \/ rowlog[k].doc = rowlog[k + 1].doc /\ rowlog[k].line < rowlog[k + 1].line
        /\ {<<rowlog[k].doc, rowlog[k].line>> : k \in DOMAIN rowlog} =
              {dl \in UNION {{<<d, l>> : l \in DOMAIN TextLines(pdf_blobs[d].full)} :
                               d \in DOMAIN pdf_blobs} :
                  LineDone(dl[1], dl[2]) /\ Accepted(dl[1], dl[2])}

\* a finished run of two documents with a skipped line between two rows
C5_Witness ==
    /\ pc = "done" /\ Len(pdf_blobs) = 2 /\ Len(rowlog) >= 3
    /\ rowlog[1].doc = 1 /\ rowlog[Len(rowlog)].doc = 2
    /\ \E k \in 1..(Len(rowlog) - 1) :
          rowlog[k].doc = rowlog[k + 1].doc /\ rowlog[k + 1].line > rowlog[k].line + 1
    /\ CellEq(CellValue(out.sheet, HeaderRow + Len(rowlog), 1), IntCell(Len(rowlog)))

\* the cell the rows appended so far put at <<row, col>>, from the log alone
LoggedCell(row, col) ==
    IF row - HeaderRow \in DOMAIN rowlog
    THEN LET e == rowlog[row - HeaderRow]
         IN  IF col = ColumnOf(e.hdr) THEN FloatCell(e.val)
             ELSE IF col = 1 THEN IntCell(e.seq)
             ELSE IF col = 2 THEN StrCell(e.prop)
             ELSE Empty
    ELSE Empty

\* the header row _prep_template writes
IsHeaderCell(sheet, col) ==
    /\ col \in 1..(Len(EXPECTED_HEADERS) + 1)
    /\ CellEq(CellValue(sheet, HeaderRow, col),
              IF col = 1 THEN StrCell(<<"#">>) ELSE StrCell(EXPECTED_HEADERS[col - 1]))

TemplateSheet ==
    IF template_bytes.present /\ template_bytes.has_sheet
    THEN template_bytes.cells ELSE EmptySheet

-----------------------------------------------------------------------------
(* _resolve_property on its own.                                           *)

T_TwoCodes == <<"l","o","a","n"," ","2","0","0"," ","f","o","r"," ","1","0","5","-","m","a","i","n">>
T_NearMiss == <<"A","2","0","0"," ","O","a","k"," ","C","o","u","r","t","s"," ","x","7","y">>
T_CodeAndName == <<"O","a","k"," ","C","o","u","r","t",","," ","7"," ","u","n","i","t","s">>
LB_TaxEscrow == <<"T","a","x"," ","E","s","c","r","o","w">>
LB_ReserveBalance == <<"R","e","s","e","r","v","e"," ","B","a","l","a","n","c","e">>
LB_EscrowInsurance == <<"E","s","c","r","o","w","-","I","n","s","u","r","a","n","c","e">>
LB_Property == <<"P","r","o","p","e","r","t","y">>
LB_PrincipalBal == <<"P","r","i","n","c","i","p","a","l"," ","B","a","l">>
LB_MiscFee == <<"M","i","s","c"," ","F","e","e">>
LB_TaxEscrowUpper == <<"T","A","X","_","E","S","C","R","O","W">>
LB_ReplacementFund == <<"R","e","p","l","a","c","e","m","e","n","t"," ","r","e","s","e","r","v","e"," ","f","u","n","d">>
PAT_Tax == <<"t","a","x">>
DET_Statement == <<"s","t","a","t","e","m","e","n","t">>
VT_Acme == <<"A","c","m","e"," ","L","o","a","n"," ","S","e","r","v","i","c","i","n","g","\n","R","e","s","e","r","v","e"," ","B","a","l","a","n","c","e"," ","3","0","0">>
VT_Bravo == <<"B","r","a","v","o"," ","B","a","n","k","\n","T","a","x"," ","E","s","c","r","o","w"," ","1","0">>
VT_Mixed == <<"A","C","M","E"," ","L","O","A","N"," ","s","t","a","t","e","m","e","n","t","\n","b","r","a","v","o"," ","t","a","x"," ","e","s","c","r","o","w",":"," ","5","\n","p","r","i","n","c","i","p","a","l"," ","b","a","l"," ","7">>
VT_None == <<"n","o","t","h","i","n","g"," ","t","o"," ","s","e","e">>
VT_PatternsOnly == <<"T","a","x"," ","E","s","c","r","o","w",":"," ","$","1","\n","r","e","s","e","r","v","e"," ","2">>

\* the largest directory
MaxDir == 2

\* directory rows; the last one shares its name with Prop200
PropPool == {Prop105, Prop200, Prop7, DirRow(C_7, N_OakCourt)}

ResolveTexts == {DocScenario.full, DocBoth.full, DocFuzzy.full, T_TwoCodes, T_NearMiss,
                 T_CodeAndName}

FuzzyScores == {80, 92}

InitResolve ==
    /\ PipeIdle
    /\ call \in {[fn |-> "_resolve_property", text |-> t, df |-> d, ratio |-> Ratio(a, b, c)] :
                    t \in ResolveTexts, d \in SeqsUpTo(PropPool, MaxDir),
                    a \in FuzzyScores, b \in FuzzyScores, c \in {80}}
    /\ ret = Pending

CallResolveProperty ==
    /\ call.fn = "_resolve_property" /\ ret = Pending
    /\ ret' = _resolve_property(call.text, call.df, call.ratio)
    /\ UNCHANGED <<pipeVars, call>>

NextResolve == CallResolveProperty

SpecResolve == InitResolve /\ [][NextResolve]_vars

\* the rows of the directory whose code, or whose name, is a whole word of the text
CodeHits == {i \in DOMAIN call.df : WordSearch(call.df[i].PropertyCode, call.text)}
NameHits == {i \in DOMAIN call.df : WordSearch(call.df[i].PropertyName, call.text)}
FuzzyHits == {i \in DOMAIN call.df : call.ratio[call.df[i].PropertyName] >= 92}

\* C6 as stated: every property code that is a whole word of the text is the
\* code the resolver returns.
C6_EveryCodeReturned ==
    ret # Pending =>
        \A i \in CodeHits : ret.ok /\ ret.code = call.df[i].PropertyCode

\* the code name2code gives the name of row i
CodeOfName(i) ==
    call.df[Max({j \in DOMAIN call.df :
                    call.df[j].PropertyName = call.df[i].PropertyName})].PropertyCode

\* C6 as amended: if some property code is a whole word of the text, the resolver
\* returns the first such code in directory order, whatever names appear in the
\* text and whatever the fuzzy scores are; the names are searched only when no
\* code matches, and the fuzzy stage decides only when no code and no name
\* matches.
C6_FirstCodeReturned ==
    ret # Pending =>
        /\ CodeHits # {} =>
              ret.ok /\ ret.code = call.df[Min(CodeHits)].PropertyCode
        /\ (CodeHits = {} /\ NameHits # {}) =>
              ret.ok /\ ret.code = CodeOfName(Min(NameHits))
        /\ (CodeHits = {} /\ NameHits = {}) =>
              /\ ret.ok <=> FuzzyHits # {}
              /\ ret.ok => \E i \in FuzzyHits :
                    /\ ret.code = CodeOfName(i)
                    /\ \A j \in DOMAIN call.df :
                          call.ratio[call.df[j].PropertyName] <= call.ratio[call.df[i].PropertyName]

\* a code is a whole word of the text while another property's name is one too
\* and scores 92 or more; the code is returned
C6_Witness ==
    /\ ret # Pending /\ ret.ok
    /\ \E i \in CodeHits, j \in NameHits \cap FuzzyHits :
          /\ call.df[i].PropertyCode # call.df[j].PropertyCode
          /\ CodeOfName(j) # call.df[i].PropertyCode
          /\ ret.code = call.df[i].PropertyCode

-----------------------------------------------------------------------------
(* _map_header on its own.                                                 *)

\* the longest rule table
MaxRules == 2

\* rules that compete with the synonym table, with each other, or are unusable
RulePool == {
    Rule("Acme", PAT_Escrow, H_OtherEscrows, <<>>),
    Rule("Acme", PAT_Reserve, HDR_Reserves, <<>>),
    Rule("Acme", PAT_Tax, H_Mortgage1st, <<>>),
    Rule("Acme", <<>>, H_Mortgage2nd, <<>>),
    Rule("Bravo", PAT_TaxEscrow, H_EscrowInsurance, <<>>) }

MapLabels == {LB_TaxEscrow, LB_ReserveBalance, LB_EscrowInsurance, LB_Property,
              LB_PrincipalBal, LB_MiscFee, LB_TaxEscrowUpper, LB_ReplacementFund}

MapVendors == {NoVendor, "", "Acme", "Bravo"}

InitMap ==
    /\ PipeIdle
    /\ call \in {[fn |-> "_map_header", lbl |-> l, vendor |-> v, df |-> t] :
                    l \in MapLabels, v \in MapVendors,
                    t \in {NoTable} \cup {Table(q) : q \in SeqsUpTo(RulePool, MaxRules)}}
    /\ ret = Pending

CallMapHeader ==
    /\ call.fn = "_map_header" /\ ret = Pending
    /\ ret' = [hdr |-> _map_header(call.lbl, call.vendor, call.df)]
    /\ UNCHANGED <<pipeVars, call>>

NextMap == CallMapHeader

SpecMap == InitMap /\ [][NextMap]_vars

\* rule i of the table has its Pattern in the label, case-insensitively
PatternInLabel(i) ==
    Contains(lower(call.lbl), lower(call.df.rows[i].Pattern))

\* C7 as stated: whenever the label contains the (non-empty) Pattern of a rule
\* of the detected vendor, _map_header returns that rule's MappedHeader.
C7_EveryRuleWins ==
    (ret # Pending /\ call.vendor # NoVendor) =>
        \A i \in DOMAIN call.df.rows :
            (/\ call.df.rows[i].Vendor = call.vendor
             /\ call.df.rows[i].Pattern # <<>>
             /\ PatternInLabel(i)) =>
                ret.hdr = call.df.rows[i].MappedHeader

\* the rules _map_header can use: searched for this vendor (all rules when the
\* vendor is none or the empty name), a non-empty Pattern that the label contains,
\* a canonical MappedHeader
UsableRules ==
    {i \in DOMAIN call.df.rows :
        /\ call.vendor \in {NoVendor, ""} \/ call.df.rows[i].Vendor = call.vendor
        /\ call.df.rows[i].Pattern # <<>>
        /\ PatternInLabel(i)
        /\ \E h \in DOMAIN EXPECTED_HEADERS : EXPECTED_HEADERS[h] = call.df.rows[i].MappedHeader}

\* C7 as amended: when the label contains the non-empty Pattern of a searched rule
\* whose MappedHeader is canonical, _map_header returns the MappedHeader of the
\* first such rule in table order, whatever the synonym table, the canonical
\* headers or the "reserve" fallback would give; otherwise the rules decide
\* nothing.
C7_FirstUsableRuleWins ==
    ret # Pending =>
        IF UsableRules # {}
        THEN ret.hdr = call.df.rows[Min(UsableRules)].MappedHeader
        ELSE ret.hdr = MapGeneric(call.lbl)

\* a rule of the detected vendor wins over a synonym-table entry for the label
C7_Witness ==
    /\ ret # Pending /\ call.vendor = "Acme" /\ UsableRules # {}
    /\ \E i \in DOMAIN HEADER_SYNONYMS :
          HEADER_SYNONYMS[i][1] = _norm(call.lbl) /\ HEADER_SYNONYMS[i][2] # ret.hdr
    /\ ret.hdr = call.df.rows[Min(UsableRules)].MappedHeader

-----------------------------------------------------------------------------
(* _detect_vendor on its own.                                              *)

\* the longest rule table of a detection
MaxDetectRules == 3

DetectRulePool == {
    Rule("Acme", PAT_Reserve, H_OtherEscrows, DET_AcmeLoan),
    Rule("Bravo", PAT_TaxEscrow, H_TaxEscrow, DET_Bravo),
    Rule("Bravo", PAT_Escrow, H_OtherEscrows, <<>>),
    Rule("Colt", PAT_PrincipalBal, H_Mortgage1st, DET_Statement),
    Rule("Acme", <<>>, H_Mortgage2nd, PAT_Tax) }

DetectTexts == {VT_Acme, VT_Bravo, VT_Mixed, VT_None, VT_PatternsOnly}

InitVendor ==
    /\ PipeIdle
    /\ call \in {[fn |-> "_detect_vendor", text |-> t, df |-> d] :
                    t \in DetectTexts,
                    d \in {NoTable} \cup {Table(q) : q \in SeqsUpTo(DetectRulePool, MaxDetectRules)}}
    /\ ret = Pending

CallDetectVendor ==
    /\ call.fn = "_detect_vendor" /\ ret = Pending
    /\ ret' = [vendor |-> _detect_vendor(call.text, call.df)]
    /\ UNCHANGED <<pipeVars, call>>

NextVendor == CallDetectVendor

SpecVendor == InitVendor /\ [][NextVendor]_vars

TableVendors == {call.df.rows[i].Vendor : i \in DOMAIN call.df.rows}

\* 5 x the DetectPattern cells of vendor v that match the text + 1 x its Pattern
\* cells the text contains (empty cells are no patterns)
ClaimedScore(v) ==
    5 * Cardinality({i \in DOMAIN call.df.rows :
            /\ call.df.rows[i].Vendor = v
            /\ call.df.rows[i].DetectPattern # <<>>
            /\ Contains(lower(call.text), lower(call.df.rows[i].DetectPattern))})
    + Cardinality({i \in DOMAIN call.df.rows :
            /\ call.df.rows[i].Vendor = v
            /\ call.df.rows[i].Pattern # <<>>
            /\ Contains(lower(call.text), lower(call.df.rows[i].Pattern))})

\* the position of a vendor in the iteration order of the groups
OrderOf(v) == CHOOSE i \in DOMAIN VendorOrder : VendorOrder[i] = v

\* C10: _detect_vendor returns a vendor whose score is the maximum and positive,
\* the first in iteration order among those with the maximum; it returns none
\* exactly when the table is absent or empty or every vendor scores zero.
C10_DetectVendor ==
    ret # Pending =>
        IF \A v \in TableVendors : ClaimedScore(v) = 0
        THEN ret.vendor = NoVendor
        ELSE /\ ret.vendor \in TableVendors
             /\ ClaimedScore(ret.vendor) > 0
             /\ \A v \in TableVendors :
                   /\ ClaimedScore(v) <= ClaimedScore(ret.vendor)
                   /\ ClaimedScore(v) = ClaimedScore(ret.vendor) => OrderOf(ret.vendor) <= OrderOf(v)

\* two vendors tie at the maximum, the later one standing first in the table,
\* and a third scores less with more matching rows
C10_Witness ==
    /\ ret # Pending /\ ret.vendor = "Acme"
    /\ ClaimedScore("Bravo") = ClaimedScore("Acme")
    /\ call.df.rows[1].Vendor = "Bravo"

\* one detection pattern outweighs two plain patterns
C10_WitnessWeight ==
    /\ ret # Pending /\ ret.vendor = "Acme"
    /\ ClaimedScore("Acme") = 5
    /\ Cardinality({i \in DOMAIN call.df.rows : call.df.rows[i].Vendor = "Bravo"}) = 2
    /\ ClaimedScore("Bravo") = 2

-----------------------------------------------------------------------------
(* _parse_num on its own, checked under SpecNum.                           *)

\* a token of the accepted syntax, after its enclosing parentheses are taken off:
\* an optional "$", digits and thousands separators, optional decimals
RECURSIVE AllIn(_, _)
AllIn(s, S) == s = <<>> \/ (s[1] \in S /\ AllIn(Tail(s), S))

InnerToken(tok) ==
    LET t == strip(tok)
    IN  IF Len(t) >= 2 /\ t[1] = "(" /\ t[Len(t)] = ")"
        THEN strip(SubSeq(t, 2, Len(t) - 1)) ELSE t

Undollared(tok) ==
    LET u == InnerToken(tok)
    IN  IF u # <<>> /\ u[1] = "$" THEN strip(Tail(u)) ELSE u

AcceptedSyntax(tok) ==
    LET u == Undollared(tok)
        d == FirstOf(u, {"."})
        ip == IF d = 0 THEN u ELSE SubSeq(u, 1, d - 1)
        fp == IF d = 0 THEN <<>> ELSE SubSeq(u, d + 1, Len(u))
    IN  /\ AllIn(ip, DigitSet \cup {","}) /\ AllIn(fp, DigitSet)
        /\ \E i \in DOMAIN u : IsDigit(u[i])

\* the number a token of the accepted syntax denotes
Denoted(tok) ==
    LET u == Undollared(tok)
        d == FirstOf(u, {"."})
        ip == IF d = 0 THEN u ELSE SubSeq(u, 1, d - 1)
        fp == IF d = 0 THEN <<>> ELSE SubSeq(u, d + 1, Len(u))
    IN  Num(Len(strip(tok)) >= 2 /\ strip(tok)[1] = "(", DigitsToNat(SelectSeq(ip, IsDigit) \o fp), 0 - Len(fp))

\* C9: _parse_num returns the number a token of the accepted syntax denotes and
\* "no value" for every other token.
C9_ParseNum ==
    ret # Pending =>
        IF AcceptedSyntax(call.s)
        THEN FloatEq(ret, Denoted(call.s))
        ELSE ret = NoValue

====
